---- MODULE Spec2Model ----
(***************************************************************************)
(* fetch_comments.py: one run of main().  The run parses its arguments,    *)
(* checks `gh auth status`, then either resolves review threads by id, or  *)
(* looks up the pull request, pages through its conversation comments,     *)
(* reviews and review threads with fetch_all, and shows a thread, resolves *)
(* threads by actionable index, or prints a listing.                       *)
(*                                                                         *)
(* The GitHub server is the environment: its three collections, the pages  *)
(* it cuts them into, and whether a call fails.                            *)
(*                                                                         *)
(* Python's None is the empty tuple and a present value x is <<x>>.        *)
(* Strings that are lowercased (logins) are tuples of characters.          *)
(***************************************************************************)
EXTENDS Integers, Sequences, FiniteSets, TLC

VARIABLES
    args,          \* argparse namespace of this run
    srv,           \* server: the PR's comments, reviews and reviewThreads
    srvResolved,   \* server: ids of the threads a resolve mutation has resolved
    pc,            \* position of main()
    error,         \* what ended the run abnormally ("" while none)
    calls,         \* external commands run so far, in order
    cursors,       \* fetch_all: comments_cursor, reviews_cursor, threads_cursor
    acc,           \* fetch_all: the three accumulating lists
    pr_meta,       \* fetch_all: pr_meta
    requests,      \* the cursor parameters of each gh api graphql query sent
    responses,     \* what the server answered to each of them
    result,        \* main: result (the snapshot fetch_all returned)
    rows,          \* main: actionable_rows
    thread_ids,    \* main: the thread ids the resolve loop iterates over
    mutations,     \* resolve mutations issued, in order, each with its outcome
    results,       \* main: results (threads the mutations returned)
    output,        \* what _emit_output was given
    text           \* a comment body on its way through the body normalizer

vars == <<args, srv, srvResolved, pc, error, calls, cursors, acc, pr_meta,
          requests, responses, result, rows, thread_ids, mutations, results,
          output, text>>

-----------------------------------------------------------------------------
(* Bounds of the model. *)

\* items of one page; stands for `first: 100` of QUERY, scaled down
PageSize == 2
\* most items a collection holds where pagination is explored
MaxItems == 5
\* most review threads where index-based resolution is explored
MaxThreads == 3
\* most review threads where classification is explored
MaxRowThreads == 2
\* most ids given to --resolve
MaxResolveArgs == 3
\* most indexes given to --resolve-indexes
MaxIndexArgs == 3
\* most pieces a comment body is put together from
MaxFragments == 3
\* largest --max-body-chars where the normalizer is explored
MaxChars == 5

-----------------------------------------------------------------------------
(* Python values. *)

None == <<>>
Some(x) == <<x>>

\* bool(x) of an optional list argument: None and [] are false
TruthyList(opt) == opt # None /\ opt[1] # <<>>

\* bool(x) of an optional string argument: None and "" are false
TruthyStr(opt) == opt # None /\ opt[1] # ""

Min(a, b) == IF a < b THEN a ELSE b

\* str.lower() on the characters logins are written with here
LowerChar(ch) ==
    CASE ch = "A" -> "a" [] ch = "B" -> "b" [] ch = "O" -> "o"
      [] ch = "T" -> "t" [] ch = "D" -> "d" [] ch = "E" -> "e"
      [] ch = "I" -> "i" [] ch = "L" -> "l" [] ch = "S" -> "s"
      [] OTHER -> ch

Lower(s) == [i \in DOMAIN s |-> LowerChar(s[i])]

UnknownLogin == <<"u", "n", "k">>
BotLogin == <<"B", "o", "t">>
HumanLogin == <<"a", "l">>

-----------------------------------------------------------------------------
(* The server. *)

ThreadIdAt(p) == "T" \o ToString(p)

\* a review thread node as QUERY selects it; comments are the authors
\* (None: the author is null) of its comments, oldest first
ThreadNode(p, resolved, outdated, authors) ==
    [id |-> ThreadIdAt(p), isResolved |-> resolved, isOutdated |-> outdated,
     comments |-> [i \in DOMAIN authors |-> [author |-> authors[i]]]]

\* one connection page: `X(first: 100, after: $cursor) { pageInfo nodes }`.
\* A null `after` starts at the first item.
Page(items, after) ==
    LET k  == IF after = None THEN 0 ELSE after[1]
        hi == Min(k + PageSize, Len(items))
    IN  [nodes |-> SubSeq(items, k + 1, hi),
         pageInfo |-> [hasNextPage |-> hi < Len(items),
                       endCursor |-> IF hi > k THEN Some(hi) ELSE None]]

PageCount(items) ==
    IF Len(items) = 0 THEN 1 ELSE (Len(items) + PageSize - 1) \div PageSize

\* the variables gh_api_graphql passes with -F: a cursor only when truthy
gh_api_graphql(comments_cursor, reviews_cursor, threads_cursor) ==
    [commentsCursor |-> IF comments_cursor # None THEN comments_cursor ELSE None,
     reviewsCursor  |-> IF reviews_cursor # None THEN reviews_cursor ELSE None,
     threadsCursor  |-> IF threads_cursor # None THEN threads_cursor ELSE None]

QueryData(req) ==
    [comments      |-> Page(srv.comments, req.commentsCursor),
     reviews       |-> Page(srv.reviews, req.reviewsCursor),
     reviewThreads |-> Page(srv.threads, req.threadsCursor)]

\* what `gh api graphql` can give back for a query: the command fails, or
\* JSON with data and no errors key, an empty errors list, or a non-empty
\* errors list (with partial or null data)
QueryOutcomes(req) ==
    {[kind |-> "failed"]}
    \cup {[kind |-> "json", errors |-> e, data |-> Some(QueryData(req))] :
            e \in {None, Some(<<>>), Some(<<"err">>)}}
    \cup {[kind |-> "json", errors |-> Some(<<"err">>), data |-> None]}

\* the server's own view of an answer: the command failed, the answer
\* carried errors, or it carried the asked-for data
Answered(p) ==
    IF p.kind = "failed" THEN "failed"
    ELSE IF p.errors # None /\ p.errors[1] # <<>> THEN "errors"
    ELSE "page"

-----------------------------------------------------------------------------
(* fetch_all: one iteration of its loop. *)

\* the errors list overlooked whenever the response carries data
HasErrors_OnlyWithoutData(payload) == payload.data = None

\* `"errors" in payload and payload["errors"]`
HasErrors(payload) == payload.errors # None /\ payload.errors[1] # <<>>

\* a RuntimeError (or any exception) leaving fetch_all: nothing is returned
FetchRaise(why) ==
    /\ pc' = "exit_error"
    /\ error' = why
    /\ UNCHANGED <<cursors, acc, pr_meta, result>>

NextCursor(conn) ==
    IF conn.pageInfo.hasNextPage THEN conn.pageInfo.endCursor ELSE None

FetchAccumulate(pr) ==
    LET c == pr.comments
        r == pr.reviews
        t == pr.reviewThreads
        acc2 == [conversation_comments |-> acc.conversation_comments \o c.nodes,
                 reviews               |-> acc.reviews \o r.nodes,
                 review_threads        |-> acc.review_threads \o t.nodes]
        cur2 == [comments |-> NextCursor(c), reviews |-> NextCursor(r),
                 threads |-> NextCursor(t)]
        meta2 == IF pr_meta = None THEN Some("pr") ELSE pr_meta
    IN  /\ acc' = acc2
        /\ cursors' = cur2
        /\ pr_meta' = meta2
        /\ error' = error
        /\ IF ~(cur2.comments # None \/ cur2.reviews # None \/ cur2.threads # None)
           THEN /\ pc' = "fetched"
                /\ result' = Some([pull_request |-> meta2[1]] @@ acc2)
           ELSE /\ pc' = "fetch"
                /\ result' = result

FetchRound ==
    /\ pc = "fetch"
    /\ LET req == gh_api_graphql(cursors.comments, cursors.reviews, cursors.threads)
       IN  /\ requests' = Append(requests, req)
           /\ calls' = Append(calls, "gh api graphql query")
           /\ \E payload \in QueryOutcomes(req) :
                /\ responses' = Append(responses, Answered(payload))
                /\ IF payload.kind = "failed" THEN FetchRaise("command failed")
                   ELSE IF HasErrors(payload) THEN FetchRaise("graphql errors")
                   ELSE IF payload.data = None THEN FetchRaise("TypeError")
                   ELSE FetchAccumulate(payload.data[1])
    /\ UNCHANGED <<text, args, srv, srvResolved, rows, thread_ids, mutations, results,
                   output>>

-----------------------------------------------------------------------------
(* The thread classifier. *)

_latest_thread_comment(thread) ==
    IF thread.comments # <<>> THEN thread.comments[Len(thread.comments)]
    ELSE [author |-> None]

_author_login(node) ==
    IF node.author # None /\ node.author[1] # <<>> THEN node.author[1]
    ELSE UnknownLogin

\* the tokens of --bot-filter (already split on commas and stripped),
\* lowercased, empty ones dropped
_normalize_bot_filters(values) ==
    {Lower(token) : token \in values} \ {<<>>}

\* the login compared as written, without .lower()
BotFiltered_CaseSensitive(author, bot_filters) ==
    bot_filters # {} /\ author \in bot_filters

\* `bot_filters and author.lower() in bot_filters`
BotFiltered(author, bot_filters) ==
    bot_filters # {} /\ Lower(author) \in bot_filters

\* `thread.get("isOutdated") and not include_outdated`
OutdatedDropped(thread, include_outdated) ==
    thread.isOutdated /\ ~include_outdated

\* the position in the input taken as the index
RowIndex_InputPosition(rows_so_far, i) == i

\* "index": len(rows) + 1, for the thread at position i of the input
RowIndex(rows_so_far, i) == Len(rows_so_far) + 1

RECURSIVE BuildRowsLoop(_, _, _, _, _)
BuildRowsLoop(review_threads, i, rows_so_far, bot_filters, include_outdated) ==
    IF i > Len(review_threads) THEN rows_so_far
    ELSE
      LET thread == review_threads[i]
          latest == _latest_thread_comment(thread)
          author == _author_login(latest)
          next   ==
            IF thread.isResolved THEN rows_so_far
            ELSE IF OutdatedDropped(thread, include_outdated) THEN rows_so_far
            ELSE IF BotFiltered(author, bot_filters) THEN rows_so_far
            ELSE Append(rows_so_far,
                        [index       |-> RowIndex(rows_so_far, i),
                         thread_id   |-> thread.id,
                         is_outdated |-> thread.isOutdated,
                         author      |-> author,
                         thread      |-> thread])
      IN  BuildRowsLoop(review_threads, i + 1, next, bot_filters, include_outdated)

build_actionable_rows(review_threads, bot_filters, include_outdated) ==
    BuildRowsLoop(review_threads, 1, <<>>, bot_filters, include_outdated)

\* format_human_summary's own pending_threads loop
RECURSIVE PendingLoop(_, _, _, _, _)
PendingLoop(review_threads, i, pending, bot_filters, include_outdated) ==
    IF i > Len(review_threads) THEN pending
    ELSE
      LET thread == review_threads[i]
          latest == _latest_thread_comment(thread)
          next   ==
            IF thread.isResolved THEN pending
            ELSE IF thread.isOutdated /\ ~include_outdated THEN pending
            ELSE IF bot_filters # {} /\ Lower(_author_login(latest)) \in bot_filters
                 THEN pending
            ELSE Append(pending, thread)
      IN  PendingLoop(review_threads, i + 1, next, bot_filters, include_outdated)

\* the summary's loop with the bot filter left out
pending_threads_NoBotFilter(review_threads, bot_filters, include_outdated) ==
    PendingLoop(review_threads, 1, <<>>, {}, include_outdated)

pending_threads(review_threads, bot_filters, include_outdated) ==
    PendingLoop(review_threads, 1, <<>>, bot_filters, include_outdated)

-----------------------------------------------------------------------------
(* Index-based resolution. *)

\* the rows keyed from 0
ByIndex_ZeroBased(actionable_rows) ==
    [n \in {actionable_rows[k].index - 1 : k \in DOMAIN actionable_rows} |->
        actionable_rows[CHOOSE k \in DOMAIN actionable_rows :
                          actionable_rows[k].index - 1 = n].thread_id]

\* {row["index"]: row["thread_id"] for row in actionable_rows}: a later row
\* with the same index overwrites an earlier one
ByIndex(actionable_rows) ==
    [n \in {actionable_rows[k].index : k \in DOMAIN actionable_rows} |->
        LET last == CHOOSE k \in DOMAIN actionable_rows :
                      /\ actionable_rows[k].index = n
                      /\ \A j \in DOMAIN actionable_rows :
                            actionable_rows[j].index = n => j <= k
        IN  actionable_rows[last].thread_id]

\* the seen set never consulted
AlreadySeen_Never(thread_id, seen) == FALSE

\* `thread_id in seen`
AlreadySeen(thread_id, seen) == thread_id \in seen

\* the loop of _resolve_indexes_to_thread_ids from position i on; None when
\* it raises "invalid index"
RECURSIVE ResolveIndexesLoop(_, _, _, _, _)
ResolveIndexesLoop(by_index, indexes, i, res, seen) ==
    IF i > Len(indexes) THEN Some(res)
    ELSE IF indexes[i] \notin DOMAIN by_index THEN None
    ELSE LET thread_id == by_index[indexes[i]]
         IN  IF AlreadySeen(thread_id, seen)
             THEN ResolveIndexesLoop(by_index, indexes, i + 1, res, seen)
             ELSE ResolveIndexesLoop(by_index, indexes, i + 1,
                                     Append(res, thread_id), seen \cup {thread_id})

_resolve_indexes_to_thread_ids(actionable_rows, indexes) ==
    ResolveIndexesLoop(ByIndex(actionable_rows), indexes, 1, <<>>, {})

-----------------------------------------------------------------------------
(* The body normalizer.  A body is a tuple of characters. *)

\* the characters str.split() splits on
IsSpace(ch) == ch \in {" ", "\n", "\t"}

RECURSIVE SplitFrom(_, _, _, _)
\* value.split(): the maximal runs of non-space characters from position i
\* on, after the words found so far and the word being read
SplitFrom(value, i, words, word) ==
    IF i > Len(value)
    THEN IF word = <<>> THEN words ELSE Append(words, word)
    ELSE IF IsSpace(value[i])
    THEN SplitFrom(value, i + 1,
                   IF word = <<>> THEN words ELSE Append(words, word), <<>>)
    ELSE SplitFrom(value, i + 1, words, Append(word, value[i]))

RECURSIVE Join(_)
\* " ".join(words)
Join(words) ==
    IF words = <<>> THEN <<>>
    ELSE IF Len(words) = 1 THEN words[1]
    ELSE words[1] \o <<" ">> \o Join(Tail(words))

_collapse_whitespace(value) == Join(SplitFrom(value, 1, <<>>, <<>>))

\* the literal `lit` stands in s at position i (letters compared lowercased
\* under re.IGNORECASE; lit is written in lowercase)
MatchesAt(s, i, lit, ignore_case) ==
    /\ i + Len(lit) - 1 <= Len(s)
    /\ \A k \in DOMAIN lit :
          (IF ignore_case THEN LowerChar(s[i + k - 1]) ELSE s[i + k - 1]) = lit[k]

RECURSIVE SubFrom(_, _, _, _, _, _)
\* re.sub(open + ".*?" + close, " ", s, flags=re.DOTALL) from position i on:
\* the leftmost open that has a close after it, up to the nearest such close,
\* becomes one space
SubFrom(s, i, open, close, ignore_case, out) ==
    IF i > Len(s) THEN out
    ELSE
      LET ends == {j \in (i + Len(open))..Len(s) : MatchesAt(s, j, close, ignore_case)}
      IN  IF MatchesAt(s, i, open, ignore_case) /\ ends # {}
          THEN LET j == CHOOSE e \in ends : \A f \in ends : e <= f
               IN  SubFrom(s, j + Len(close), open, close, ignore_case,
                           Append(out, " "))
          ELSE SubFrom(s, i + 1, open, close, ignore_case, Append(out, s[i]))

CommentOpen  == <<"<", "!", "-", "-">>
CommentClose == <<"-", "-", ">">>
DetailsOpen  == <<"<", "d", "e", "t", "a", "i", "l", "s", ">">>
DetailsClose == <<"<", "/", "d", "e", "t", "a", "i", "l", "s", ">">>

_strip_autogenerated_sections(value) ==
    LET no_html_comments == SubFrom(value, 1, CommentOpen, CommentClose, FALSE, <<>>)
        no_details == SubFrom(no_html_comments, 1, DetailsOpen, DetailsClose,
                              TRUE, <<>>)
    IN  no_details

\* value[:n]
SlicePrefix(value, n) ==
    IF n >= 0 THEN SubSeq(value, 1, Min(n, Len(value)))
    ELSE SubSeq(value, 1, Len(value) + n)

Ellipsis == <<".", ".", ".">>

\* the whole budget kept and the ellipsis put after it
_truncate_text_EllipsisAfterBudget(value, max_chars) ==
    IF max_chars = None \/ Len(value) <= max_chars[1] THEN value
    ELSE IF max_chars[1] <= 3 THEN SlicePrefix(value, max_chars[1])
    ELSE SlicePrefix(value, max_chars[1]) \o Ellipsis

_truncate_text(value, max_chars) ==
    IF max_chars = None \/ Len(value) <= max_chars[1] THEN value
    ELSE IF max_chars[1] <= 3 THEN SlicePrefix(value, max_chars[1])
    ELSE SlicePrefix(value, max_chars[1] - 3) \o Ellipsis

\* the sections stripped after the whitespace is collapsed
_normalize_body_CollapseFirst(raw, strip_auto_sections, max_chars) ==
    LET collapsed == _collapse_whitespace(raw)
        normalized == IF strip_auto_sections
                      THEN _strip_autogenerated_sections(collapsed)
                      ELSE collapsed
    IN  _truncate_text(IF normalized = <<>> THEN collapsed ELSE normalized,
                       max_chars)

_normalize_body(raw, strip_auto_sections, max_chars) ==
    LET source == IF strip_auto_sections
                  THEN _strip_autogenerated_sections(raw) ELSE raw
        normalized == _collapse_whitespace(source)
    IN  _truncate_text(IF normalized = <<>> THEN _collapse_whitespace(raw)
                       ELSE normalized,
                       max_chars)

\* _truncate_text(value, max_chars=max_chars) on the body as it is
TruncateBody ==
    /\ text # None
    /\ text[1].truncated = None
    /\ text' = Some([text[1] EXCEPT
                       !.truncated = Some(_truncate_text(text[1].raw,
                                                         text[1].max_chars))])
    /\ UNCHANGED <<args, srv, srvResolved, pc, error, calls, cursors, acc,
                   pr_meta, requests, responses, result, rows, thread_ids,
                   mutations, results, output>>

\* _normalize_body(raw, strip_auto_sections=..., max_chars=...)
NormalizeBody ==
    /\ text # None
    /\ text[1].truncated # None
    /\ text[1].normalized = None
    /\ text' = Some([text[1] EXCEPT
                       !.normalized = Some(_normalize_body(text[1].raw,
                                              text[1].strip_auto_sections,
                                              text[1].max_chars))])
    /\ UNCHANGED <<args, srv, srvResolved, pc, error, calls, cursors, acc,
                   pr_meta, requests, responses, result, rows, thread_ids,
                   mutations, results, output>>

\* _normalize_body on its own result, with the same options
NormalizeAgain ==
    /\ text # None
    /\ text[1].normalized # None
    /\ text[1].renormalized = None
    /\ text' = Some([text[1] EXCEPT
                       !.renormalized = Some(_normalize_body(text[1].normalized[1],
                                                text[1].strip_auto_sections,
                                                text[1].max_chars))])
    /\ UNCHANGED <<args, srv, srvResolved, pc, error, calls, cursors, acc,
                   pr_meta, requests, responses, result, rows, thread_ids,
                   mutations, results, output>>

-----------------------------------------------------------------------------
(* main(). *)

\* a RuntimeError leaving main: the run ends, nothing is printed
Raise(why) ==
    /\ pc' = "exit_error"
    /\ error' = why

\* int(bool(args.resolve)) + int(bool(args.resolve_indexes)) + int(bool(args.thread))
exclusive_mode_count(a) ==
    (IF TruthyList(a.resolve) THEN 1 ELSE 0)
    + (IF TruthyList(a.resolve_indexes) THEN 1 ELSE 0)
    + (IF TruthyStr(a.thread) THEN 1 ELSE 0)

\* the checks after parse_args(); parser.error exits the run
ParseArgs ==
    /\ pc = "start"
    /\ IF args.max_body_chars < 1
       THEN pc' = "exit_usage" /\ error' = "--max-body-chars must be >= 1"
       ELSE IF exclusive_mode_count(args) > 1
       THEN pc' = "exit_usage" /\ error' = "choose at most one"
       ELSE pc' = "auth" /\ error' = error
    /\ UNCHANGED <<text, args, srv, srvResolved, calls, cursors, acc, pr_meta, requests,
                   responses, result, rows, thread_ids, mutations, results, output>>

\* _ensure_gh_authenticated(), then the branch on args.resolve
EnsureGhAuthenticated ==
    /\ pc = "auth"
    /\ calls' = Append(calls, "gh auth status")
    /\ \E ok \in BOOLEAN :
         IF ~ok THEN Raise("gh auth status failed") /\ thread_ids' = thread_ids
         ELSE IF TruthyList(args.resolve)
         THEN pc' = "resolve" /\ thread_ids' = args.resolve[1] /\ error' = error
         ELSE pc' = "pr_ref" /\ thread_ids' = thread_ids /\ error' = error
    /\ UNCHANGED <<text, args, srv, srvResolved, cursors, acc, pr_meta, requests,
                   responses, result, rows, mutations, results, output>>

\* get_current_pr_ref(): `gh pr view --json ...`
GetCurrentPrRef ==
    /\ pc = "pr_ref"
    /\ calls' = Append(calls, "gh pr view")
    /\ \E ok \in BOOLEAN :
         IF ok THEN pc' = "fetch" /\ error' = error
         ELSE Raise("command failed")
    /\ UNCHANGED <<text, args, srv, srvResolved, cursors, acc, pr_meta, requests,
                   responses, result, rows, thread_ids, mutations, results, output>>

_find_thread(review_threads, thread_id) ==
    IF \E i \in DOMAIN review_threads : review_threads[i].id = thread_id
    THEN Some(review_threads[CHOOSE i \in DOMAIN review_threads :
                  /\ review_threads[i].id = thread_id
                  /\ \A j \in 1..(i - 1) : review_threads[j].id # thread_id])
    ELSE None

\* --thread THREAD_ID
ShowThread ==
    /\ pc = "fetched"
    /\ TruthyStr(args.thread)
    /\ LET thread == _find_thread(result[1].review_threads, args.thread[1])
       IN  IF thread = None
           THEN Raise("thread not found") /\ output' = output
           ELSE /\ output' = Some([kind |-> "thread", body |-> thread[1]])
                /\ pc' = "done"
                /\ error' = error
    /\ UNCHANGED <<text, args, srv, srvResolved, calls, cursors, acc, pr_meta, requests,
                   responses, result, rows, thread_ids, mutations, results>>

ActionableRowsOfRun ==
    build_actionable_rows(result[1].review_threads,
                          _normalize_bot_filters(args.bot_filter), args.outdated)

\* --resolve-indexes: the indexes become thread ids before any is resolved
PlanResolveIndexes ==
    /\ pc = "fetched"
    /\ ~TruthyStr(args.thread)
    /\ TruthyList(args.resolve_indexes)
    /\ rows' = Some(ActionableRowsOfRun)
    /\ LET ids == _resolve_indexes_to_thread_ids(ActionableRowsOfRun,
                                                 args.resolve_indexes[1])
       IN  IF ids = None
           THEN Raise("invalid index") /\ thread_ids' = thread_ids
           ELSE pc' = "resolve" /\ thread_ids' = ids[1] /\ error' = error
    /\ UNCHANGED <<text, args, srv, srvResolved, calls, cursors, acc, pr_meta, requests,
                   responses, result, mutations, results, output>>

\* the listing the four output modes print, bodies left out
Rendered ==
    LET r == ActionableRowsOfRun
    IN  IF args.json /\ args.actionable
        THEN [kind |-> "actionable json",
              body |-> [i \in DOMAIN r |->
                          [index |-> r[i].index, thread_id |-> r[i].thread_id,
                           author |-> r[i].author]]]
        ELSE IF args.json THEN [kind |-> "json", body |-> result[1]]
        ELSE IF args.actionable
        THEN [kind |-> "actionable markdown",
              body |-> [count |-> Len(r),
                        lines |-> [i \in DOMAIN r |->
                                     [index |-> r[i].index,
                                      thread_id |-> r[i].thread_id,
                                      outdated |-> r[i].is_outdated]]]]
        ELSE LET pending == pending_threads(result[1].review_threads,
                                            _normalize_bot_filters(args.bot_filter),
                                            args.outdated)
             IN  [kind |-> "summary",
                  body |-> [open |-> Len(pending),
                            lines |-> [i \in DOMAIN pending |->
                                         [idx |-> i, thread_id |-> pending[i].id]]]]

EmitOutput ==
    /\ pc = "fetched"
    /\ ~TruthyStr(args.thread)
    /\ ~TruthyList(args.resolve_indexes)
    /\ rows' = Some(ActionableRowsOfRun)
    /\ output' = Some(Rendered)
    /\ pc' = "done"
    /\ UNCHANGED <<text, args, srv, srvResolved, error, calls, cursors, acc, pr_meta,
                   requests, responses, result, thread_ids, mutations, results>>

\* what `gh api graphql` can give back for RESOLVE_MUTATION
MutationOutcomes(thread_id) ==
    {[kind |-> "failed"],
     [kind |-> "json", errors |-> Some(<<"err">>), data |-> None]}
    \cup {[kind |-> "json", errors |-> e,
            data |-> Some([id |-> thread_id, isResolved |-> TRUE])] :
            e \in {None, Some(<<>>)}}

\* the failure noted and the loop carried on
AfterFailedMutation_Continue(why) ==
    /\ pc' = "resolve"
    /\ error' = why

\* after a failed mutation: the exception leaves main
AfterFailedMutation(why) == Raise(why)

\* one iteration of `for thread_id in ...: thread = resolve_thread(thread_id)`
ResolveThread ==
    /\ pc = "resolve"
    /\ Len(mutations) < Len(thread_ids)
    /\ LET thread_id == thread_ids[Len(mutations) + 1]
       IN  /\ calls' = Append(calls, "gh api graphql mutation")
           /\ \E payload \in MutationOutcomes(thread_id) :
                /\ mutations' = Append(mutations,
                       [thread_id |-> thread_id,
                        answered |-> IF Answered(payload) = "page" THEN "resolved"
                                     ELSE Answered(payload)])
                /\ IF payload.kind = "failed"
                   THEN /\ AfterFailedMutation("command failed")
                        /\ UNCHANGED <<srvResolved, results>>
                   ELSE IF HasErrors(payload)
                   THEN /\ AfterFailedMutation("graphql errors")
                        /\ UNCHANGED <<srvResolved, results>>
                   ELSE /\ srvResolved' = srvResolved \cup {thread_id}
                        /\ results' = Append(results, payload.data[1])
                        /\ pc' = "resolve"
                        /\ error' = error
    /\ UNCHANGED <<text, args, srv, cursors, acc, pr_meta, requests, responses, result,
                   rows, thread_ids, output>>

\* after the loop: the returned threads are printed
EmitResolved ==
    /\ pc = "resolve"
    /\ Len(mutations) = Len(thread_ids)
    /\ output' = Some([kind |-> "resolved", body |-> results])
    /\ pc' = "done"
    /\ UNCHANGED <<text, args, srv, srvResolved, error, calls, cursors, acc, pr_meta,
                   requests, responses, result, rows, thread_ids, mutations, results>>

-----------------------------------------------------------------------------
(* Inputs. *)

RECURSIVE SeqsUpTo(_, _)
\* the sequences over S of length at most n
SeqsUpTo(S, n) ==
    IF n = 0 THEN {<<>>}
    ELSE LET shorter == SeqsUpTo(S, n - 1)
         IN  shorter \cup {Append(q, x) : q \in shorter, x \in S}

DefaultArgs ==
    [resolve |-> None, resolve_indexes |-> None, thread |-> None,
     max_body_chars |-> 120, json |-> FALSE, actionable |-> FALSE,
     outdated |-> FALSE, bot_filter |-> {}]

OpenThread(p) == ThreadNode(p, FALSE, FALSE, <<Some(HumanLogin)>>)

\* the variables of a run at its start; bodies are not followed through it
FreshRun(a, server, at, done) ==
    /\ text = None
    /\ args = a
    /\ srv = server
    /\ srvResolved = {}
    /\ pc = at
    /\ error = ""
    /\ calls = done
    /\ cursors = [comments |-> None, reviews |-> None, threads |-> None]
    /\ acc = [conversation_comments |-> <<>>, reviews |-> <<>>,
              review_threads |-> <<>>]
    /\ pr_meta = None
    /\ requests = <<>>
    /\ responses = <<>>
    /\ result = None
    /\ rows = None
    /\ thread_ids = <<>>
    /\ mutations = <<>>
    /\ results = <<>>
    /\ output = None

\* pagination: every size of the three collections, entering fetch_all
InitFetch ==
    \E nc \in 0..MaxItems, nr \in 0..MaxItems, nt \in 0..MaxItems :
       FreshRun([DefaultArgs EXCEPT !.json = TRUE],
                [comments |-> [i \in 1..nc |-> i],
                 reviews  |-> [i \in 1..nr |-> i],
                 threads  |-> [p \in 1..nt |-> OpenThread(p)]],
                "fetch", <<"gh auth status", "gh pr view">>)

NextFetch == FetchRound \/ EmitOutput

SpecFetch == InitFetch /\ [][NextFetch]_vars

\* the authors of a thread's comments, oldest first (None: author is null)
CommentAuthorLists ==
    {<<>>, <<None>>, <<Some(BotLogin)>>, <<Some(HumanLogin)>>,
     <<Some(BotLogin), Some(HumanLogin)>>, <<Some(HumanLogin), Some(BotLogin)>>}

ThreadShapes ==
    [isResolved : BOOLEAN, isOutdated : BOOLEAN, authors : CommentAuthorLists]

ThreadLists(shapes, most) ==
    UNION {{[p \in 1..n |-> ThreadNode(p, f[p].isResolved, f[p].isOutdated,
                                         f[p].authors)] :
              f \in [1..n -> shapes]} : n \in 0..most}

\* classification: every list of threads, filter and --outdated, entering
\* fetch_all with the threads as the only content of the pull request
InitRows ==
    \E threads \in ThreadLists(ThreadShapes, MaxRowThreads), outdated \in BOOLEAN,
       tokens \in SUBSET {BotLogin, UnknownLogin} :
       FreshRun([DefaultArgs EXCEPT !.outdated = outdated, !.bot_filter = tokens],
                [comments |-> <<>>, reviews |-> <<>>, threads |-> threads],
                "fetch", <<"gh auth status", "gh pr view">>)

SpecRows == InitRows /\ [][NextFetch]_vars

\* flags in every combination, each with one representative value
FlagArgs ==
    [resolve : {None, Some(<<ThreadIdAt(1)>>)},
     resolve_indexes : {None, Some(<<1>>)},
     thread : {None, Some(""), Some(ThreadIdAt(1)), Some("T0")},
     max_body_chars : {0, 120},
     json : BOOLEAN, actionable : BOOLEAN,
     outdated : {FALSE}, bot_filter : {{}}]

SmallServer ==
    [comments |-> <<1>>, reviews |-> <<1>>,
     threads |-> <<OpenThread(1), ThreadNode(2, TRUE, FALSE, <<Some(BotLogin)>>)>>]

\* servers for index-based resolution: open and resolved threads, and
\* conversation comments on one page or on two
IndexServers ==
    {[comments |-> [i \in 1..nc |-> i], reviews |-> <<>>, threads |-> t] :
        nc \in {0, PageSize + 1},
        t \in ThreadLists([isResolved : BOOLEAN, isOutdated : {FALSE},
                           authors : {<<Some(HumanLogin)>>}], MaxThreads)}

ResolveLists == SeqsUpTo({ThreadIdAt(1), ThreadIdAt(2)}, MaxResolveArgs) \ {<<>>}

IndexLists == SeqsUpTo(0..(MaxThreads + 1), MaxIndexArgs) \ {<<>>}

Init ==
    \/ \E a \in FlagArgs : FreshRun(a, SmallServer, "start", <<>>)
    \/ \E ids \in ResolveLists :
          FreshRun([DefaultArgs EXCEPT !.resolve = Some(ids)], SmallServer,
                   "start", <<>>)
    \/ \E indexes \in IndexLists, server \in IndexServers :
          FreshRun([DefaultArgs EXCEPT !.resolve_indexes = Some(indexes)], server,
                   "start", <<>>)

Next ==
    \/ ParseArgs
    \/ EnsureGhAuthenticated
    \/ GetCurrentPrRef
    \/ FetchRound
    \/ ShowThread
    \/ PlanResolveIndexes
    \/ EmitOutput
    \/ ResolveThread
    \/ EmitResolved

Spec == Init /\ [][Next]_vars

\* pieces of comment bodies: text, whitespace, whole and broken markers
Fragments ==
    {<<"a">>, <<"b", "c">>, <<" ">>, <<"\n", " ">>, CommentOpen, CommentClose,
     <<"<", "!", "-">>, DetailsOpen,
     <<"<", "/", "D", "E", "T", "A", "I", "L", "S", ">">>}

RECURSIVE Bodies(_)
\* the bodies put together from at most n pieces
Bodies(n) ==
    IF n = 0 THEN {<<>>}
    ELSE LET shorter == Bodies(n - 1)
         IN  shorter \cup {b \o f : b \in shorter, f \in Fragments}

\* the normalizer: every body, both values of strip_auto_sections, no budget
\* or a budget of 1..MaxChars (main lets no budget below 1 through)
InitText ==
    /\ \E raw \in Bodies(MaxFragments), strip \in BOOLEAN,
          budget \in {None} \cup {Some(k) : k \in 1..MaxChars} :
          text = Some([raw |-> raw, strip_auto_sections |-> strip,
                       max_chars |-> budget, truncated |-> None,
                       normalized |-> None, renormalized |-> None])
    /\ args = DefaultArgs
    /\ srv = [comments |-> <<>>, reviews |-> <<>>, threads |-> <<>>]
    /\ srvResolved = {}
    /\ pc = "fetched"
    /\ error = ""
    /\ calls = <<>>
    /\ cursors = [comments |-> None, reviews |-> None, threads |-> None]
    /\ acc = [conversation_comments |-> <<>>, reviews |-> <<>>,
              review_threads |-> <<>>]
    /\ pr_meta = None
    /\ requests = <<>>
    /\ responses = <<>>
    /\ result = None
    /\ rows = None
    /\ thread_ids = <<>>
    /\ mutations = <<>>
    /\ results = <<>>
    /\ output = None

NextText == TruncateBody \/ NormalizeBody \/ NormalizeAgain

SpecText == InitText /\ [][NextText]_vars

-----------------------------------------------------------------------------
(* Pagination properties (SpecFetch). *)

Count(seq, x) == Cardinality({i \in DOMAIN seq : seq[i] = x})

\* every item of `items` is in `got` exactly once, and nothing else is
ExactlyOnce(got, items) ==
    /\ Len(got) = Len(items)
    /\ \A i \in DOMAIN items : Count(got, items[i]) = 1

\* C1: when fetch_all returns, each of the three collections of the snapshot
\* holds every item of every page of that collection exactly once, so its
\* length is the sum of the page sizes, whatever the three page counts are.
C1_AggregationComplete ==
    result # None =>
        /\ ExactlyOnce(result[1].conversation_comments, srv.comments)
        /\ ExactlyOnce(result[1].reviews, srv.reviews)
        /\ ExactlyOnce(result[1].review_threads, srv.threads)

\* a round has been made, fetch_all goes on, and the collection's last page
\* said hasNextPage = false
ExhaustedEarly(cursor) == pc = "fetch" /\ requests # <<>> /\ cursor = None

\* C2: a collection that is exhausted while another still has pages is left
\* alone from then on: its list is not appended to by a later round (its
\* first page is not fetched again) and no cursor is set and sent for it.
C2_CursorIndependence ==
    [][/\ ExhaustedEarly(cursors.comments) =>
            /\ acc'.conversation_comments = acc.conversation_comments
            /\ cursors'.comments = None
       /\ ExhaustedEarly(cursors.reviews) =>
            /\ acc'.reviews = acc.reviews
            /\ cursors'.reviews = None
       /\ ExhaustedEarly(cursors.threads) =>
            /\ acc'.review_threads = acc.review_threads
            /\ cursors'.threads = None]_vars

Max(a, b) == IF a > b THEN a ELSE b

LargestPageCount ==
    Max(PageCount(srv.comments), Max(PageCount(srv.reviews), PageCount(srv.threads)))

\* C3: fetch_all sends no request after the round in which every collection
\* has delivered its last page, and when it returns it has made as many
\* round trips as the largest of the three page counts.
C3_StopsAtLastPage ==
    /\ Len(requests) <= LargestPageCount
    /\ result # None => Len(requests) = LargestPageCount

\* C9: the round whose response carries a non-empty errors list is the last
\* one: the run has failed there, no request follows it (no retry), and no
\* snapshot is returned and nothing is printed.
C9_NoPartialSnapshot ==
    \A i \in DOMAIN responses :
        responses[i] = "errors" =>
            /\ i = Len(requests)
            /\ pc = "exit_error"
            /\ result = None
            /\ output = None

\* the errors arrive in a later round, after items have been accumulated
C9_Witness ==
    /\ Len(responses) >= 2
    /\ responses[Len(responses)] = "errors"
    /\ acc.review_threads # <<>>
    /\ acc.conversation_comments # <<>>

-----------------------------------------------------------------------------
(* Classification properties (SpecRows). *)

\* the threads build_actionable_rows was given, its filter set and flag
GivenThreads == result[1].review_threads
GivenFilters == _normalize_bot_filters(args.bot_filter)

\* login of the author of the last comment, "unknown" when there is no
\* comment or no author
LastAuthor(thread) ==
    LET n == Len(thread.comments)
    IN  IF n = 0 THEN UnknownLogin
        ELSE IF thread.comments[n].author = None THEN UnknownLogin
        ELSE thread.comments[n].author[1]

Actionable(thread) ==
    /\ ~thread.isResolved
    /\ (~thread.isOutdated \/ args.outdated)
    /\ Lower(LastAuthor(thread)) \notin GivenFilters

\* C4: a thread is among the rows of build_actionable_rows if and only if
\* it is unresolved, is not outdated unless outdated threads are included,
\* and the lowercased login of its last comment's author ("unknown" when
\* there is none) is not in the bot-filter set.
C4_ClassifierFiltering ==
    rows # None =>
        \A p \in DOMAIN GivenThreads :
            (\E k \in DOMAIN rows[1] : rows[1][k].thread = GivenThreads[p])
                <=> Actionable(GivenThreads[p])

\* one thread is dropped because "Bot" matches the filter "bot", another is
\* dropped because it has no author and "unknown" is filtered
C4_Witness ==
    /\ rows # None
    /\ Len(GivenThreads) = 2
    /\ rows[1] = <<>>
    /\ \A p \in DOMAIN GivenThreads :
          ~GivenThreads[p].isResolved /\ ~GivenThreads[p].isOutdated
    /\ LastAuthor(GivenThreads[1]) = BotLogin
    /\ Len(GivenThreads[1].comments) = 2
    /\ GivenThreads[2].comments = <<>>

PositionOf(thread_id) ==
    CHOOSE p \in DOMAIN GivenThreads : GivenThreads[p].id = thread_id

\* C5: the indexes of the rows, in output order, are 1, 2, ..., n with n the
\* number of threads that survived, and the rows are in the order their
\* threads had in the input.
C5_IndexDensity ==
    rows # None =>
        /\ \A k \in DOMAIN rows[1] : rows[1][k].index = k
        /\ \A k \in DOMAIN rows[1] :
              \E p \in DOMAIN GivenThreads : GivenThreads[p] = rows[1][k].thread
        /\ \A j, k \in DOMAIN rows[1] :
              j < k => PositionOf(rows[1][j].thread_id) < PositionOf(rows[1][k].thread_id)

\* the first thread was dropped and the second is row 1
C5_Witness ==
    /\ rows # None
    /\ Len(GivenThreads) = 2
    /\ Len(rows[1]) = 1
    /\ rows[1][1].thread_id = GivenThreads[2].id
    /\ rows[1][1].index = 1

-----------------------------------------------------------------------------
(* Resolution properties (Spec). *)

MutatedIds == [k \in DOMAIN mutations |-> mutations[k].thread_id]

IsPrefix(s, t) == Len(s) <= Len(t) /\ \A k \in DOMAIN s : s[k] = t[k]

\* --resolve-indexes was given and the rows of this run are computed
IndexMode == TruthyList(args.resolve_indexes) /\ rows # None

IndexesValid ==
    \A i \in DOMAIN args.resolve_indexes[1] :
        args.resolve_indexes[1][i] \in 1..Len(rows[1])

\* the thread id each given index stands for
IndexedIds ==
    [i \in DOMAIN args.resolve_indexes[1] |->
        rows[1][args.resolve_indexes[1][i]].thread_id]

RECURSIVE FirstSeenFrom(_, _)
\* the elements of s from position i on that do not occur before, in order
FirstSeenFrom(s, i) ==
    IF i > Len(s) THEN <<>>
    ELSE IF \E j \in 1..(i - 1) : s[j] = s[i] THEN FirstSeenFrom(s, i + 1)
    ELSE <<s[i]>> \o FirstSeenFrom(s, i + 1)

\* C6: with valid indexes, no thread id gets more than one resolve mutation
\* and the mutations go out in the order in which the thread ids first
\* appear in the index list; a run that completes has issued all of them.
C6_IndexResolutionDeduplicates ==
    (IndexMode /\ IndexesValid) =>
        /\ \A j, k \in DOMAIN mutations :
              mutations[j].thread_id = mutations[k].thread_id => j = k
        /\ IsPrefix(MutatedIds, FirstSeenFrom(IndexedIds, 1))
        /\ pc = "done" => MutatedIds = FirstSeenFrom(IndexedIds, 1)

\* three indexes, the first two equal, resolved with two mutations
C6_Witness ==
    /\ IndexMode /\ IndexesValid
    /\ pc = "done"
    /\ Len(args.resolve_indexes[1]) = 3
    /\ args.resolve_indexes[1][1] = args.resolve_indexes[1][2]
    /\ Len(mutations) = 2

\* C7: an index outside 1..count of the rows of this run fails the run with
\* the out-of-range error and no resolve mutation is issued at all.
C7_OutOfRangeIndex ==
    (IndexMode /\ ~IndexesValid) =>
        /\ pc = "exit_error"
        /\ error = "invalid index"
        /\ mutations = <<>>
        /\ \A i \in DOMAIN calls : calls[i] # "gh api graphql mutation"
        /\ srvResolved = {}

\* a valid index comes before the invalid one
C7_Witness ==
    /\ IndexMode
    /\ Len(args.resolve_indexes[1]) >= 2
    /\ args.resolve_indexes[1][1] \in 1..Len(rows[1])
    /\ args.resolve_indexes[1][2] \notin 1..Len(rows[1])
    /\ pc = "exit_error"

\* the thread ids in the order the caller gave them
CallerOrder ==
    IF TruthyList(args.resolve) THEN args.resolve[1]
    ELSE IF IndexMode /\ IndexesValid THEN FirstSeenFrom(IndexedIds, 1)
    ELSE <<>>

\* C8: in both resolve modes the mutations go out one by one in the caller's
\* order; a failed mutation is the last one issued and ends the run; the
\* mutations applied before it stay applied.
C8_MutationOrderAndAbort ==
    /\ IsPrefix(MutatedIds, CallerOrder)
    /\ \A k \in DOMAIN mutations :
          \/ /\ mutations[k].answered = "resolved"
             /\ mutations[k].thread_id \in srvResolved
          \/ /\ mutations[k].answered # "resolved"
             /\ k = Len(mutations)
             /\ pc = "exit_error"
             /\ output = None

\* the second of three mutations fails after the first was applied
C8_Witness ==
    /\ TruthyList(args.resolve)
    /\ Len(args.resolve[1]) = 3
    /\ Len(mutations) = 2
    /\ mutations[1].answered = "resolved"
    /\ mutations[2].answered = "errors"
    /\ mutations[1].thread_id \in srvResolved

\* number of the three mode flags given on the command line
ModeFlagsSet ==
    (IF args.resolve # None THEN 1 ELSE 0)
    + (IF args.resolve_indexes # None THEN 1 ELSE 0)
    + (IF args.thread # None THEN 1 ELSE 0)

\* C10: with more than one of --resolve, --resolve-indexes, --thread set, or
\* --max-body-chars below 1, the run ends with a usage error before any
\* external call.
C10_UsageErrorsPreflight ==
    (pc # "start" /\ (ModeFlagsSet > 1 \/ args.max_body_chars < 1)) =>
        /\ pc = "exit_usage"
        /\ calls = <<>>

-----------------------------------------------------------------------------
(* Presenter properties (SpecRows). *)

\* the run printed the human summary
SummaryPrinted == output # None /\ output[1].kind = "summary"

\* C13: the pending-thread list format_human_summary computes is, element
\* for element and in order, the list of the source threads of the rows of
\* build_actionable_rows; so a thread's number under "Review Threads" is its
\* actionable index and "Open threads to address" is the number of rows.
C13_SummaryMatchesRows ==
    SummaryPrinted =>
        LET pending == pending_threads(GivenThreads, GivenFilters, args.outdated)
            actionable == build_actionable_rows(GivenThreads, GivenFilters,
                                                args.outdated)
            printed == output[1].body
        IN  /\ rows[1] = actionable
            /\ Len(pending) = Len(actionable)
            /\ \A i \in DOMAIN pending : pending[i] = actionable[i].thread
            /\ printed.open = Len(actionable)
            /\ DOMAIN printed.lines = DOMAIN actionable
            /\ \A i \in DOMAIN actionable :
                  /\ printed.lines[i].idx = actionable[i].index
                  /\ printed.lines[i].thread_id = actionable[i].thread_id

\* the summary of two threads where the filter drops the first one's bot
\* author, so the second is printed as number 1
C13_Witness ==
    /\ SummaryPrinted
    /\ Len(GivenThreads) = 2
    /\ ~GivenThreads[1].isResolved
    /\ ~GivenThreads[1].isOutdated
    /\ Lower(LastAuthor(GivenThreads[1])) \in GivenFilters
    /\ output[1].body.open = 1
    /\ output[1].body.lines[1] = [idx |-> 1, thread_id |-> GivenThreads[2].id]

-----------------------------------------------------------------------------
(* Normalizer properties (SpecText). *)

\* C11: a body longer than max_chars = k is cut to exactly k characters, the
\* first k - 3 of the body followed by "...", when k > 3, and to its first k
\* characters with no ellipsis when k <= 3; a body of at most max_chars
\* characters, and any body when max_chars is absent, comes back unchanged.
C11_TruncationExactness ==
    (text # None /\ text[1].truncated # None) =>
        LET value == text[1].raw
            out   == text[1].truncated[1]
            k     == text[1].max_chars[1]
        IN  IF text[1].max_chars = None THEN out = value
            ELSE IF Len(value) <= k THEN out = value
            ELSE IF k > 3
            THEN /\ Len(out) = k
                 /\ \A i \in 1..(k - 3) : out[i] = value[i]
                 /\ \A i \in (k - 2)..k : out[i] = "."
            ELSE /\ Len(out) = k
                 /\ \A i \in 1..k : out[i] = value[i]

\* a body longer than a budget above 3 has been cut
C11_Witness ==
    /\ text # None
    /\ text[1].truncated # None
    /\ text[1].max_chars = Some(5)
    /\ Len(text[1].raw) > 5
    /\ text[1].truncated[1] # text[1].raw

\* the first pass cut nothing: its result is the one it gives with no budget
NotTruncated ==
    text[1].normalized[1] =
        _normalize_body(text[1].raw, text[1].strip_auto_sections, None)

\* the stripping left nothing, so the first pass fell back on the raw body
FellBack ==
    /\ text[1].strip_auto_sections
    /\ _collapse_whitespace(_strip_autogenerated_sections(text[1].raw)) = <<>>
    /\ _collapse_whitespace(text[1].raw) # <<>>

\* C12: when the first pass of _normalize_body truncated nothing, a second
\* pass over its result with the same options returns that result unchanged,
\* also when the result came from the fallback on the raw body.
C12_NormalizeIdempotent ==
    (text # None /\ text[1].renormalized # None /\ NotTruncated) =>
        text[1].renormalized[1] = text[1].normalized[1]

\* both passes are done on a body that lost a section and on one that fell
\* back: here the fallback, whose result still holds the whole marker pair
C12_Witness ==
    /\ text # None
    /\ text[1].renormalized # None
    /\ NotTruncated
    /\ FellBack
    /\ text[1].normalized[1] # text[1].raw

====
